---- MODULE Spec2Model ----
(***************************************************************************)
(* Value translation between the Vulkan vocabulary and the gfx-hal         *)
(* vocabulary, libportability-gfx/src/conv.rs.                             *)
(*                                                                         *)
(* Every function of conv.rs is pure.  The state machine below is a client *)
(* that calls one mapper at a time: `fn` is the mapper called last, `arg`  *)
(* its input and `ret` what the call produced.  `build` is the profile the *)
(* crate was compiled with; it decides what an arithmetic overflow and a   *)
(* debug assertion do.                                                     *)
(*                                                                         *)
(* Representation                                                          *)
(*  - a 32-bit flag mask is the set of its set bit positions (0..31);      *)
(*    `a & b` is intersection, `a & b != 0` is a non-empty intersection;   *)
(*  - a hal bitflags value built with `flags |= X` is the set of the names *)
(*    X that were or-ed in;                                                *)
(*  - a 32-bit scalar that takes part in `+` is a pair of 16-bit limbs, so *)
(*    that the whole range of u32 is covered;                              *)
(*  - a Vulkan enum value is its variant name, except VkFormat and         *)
(*    VkSampleCountFlagBits, which conv.rs reads numerically;              *)
(*  - a value of a hal type is a record, its fields named after the type   *)
(*    or its components; `arg` is the record of the call's arguments;      *)
(*  - a call ends in Ok(v), or unwinds: unimplemented!() is the            *)
(*    not-yet-supported failure, every other panic (panic!, assert!,       *)
(*    debug_assert!, arithmetic overflow) is the invalid-input failure.    *)
(*                                                                         *)
(* The widths of the hal types that `as _` converts into (image::Size and  *)
(* image::Layer are u16, image::Level and image::NumSamples are u8) and    *)
(* format::NUM_FORMATS are those of the gfx-hal revision conv.rs is        *)
(* written against, the one whose image::Kind has the variants used here.  *)
(***************************************************************************)
EXTENDS Integers, FiniteSets, Sequences, TLC

VARIABLES build, fn, arg, ret

vars == <<build, fn, arg, ret>>

-----------------------------------------------------------------------------
(* Bounds of the exploration *)

\* a mask given to a flag mapper has at most this many bits set
MaxBitsSet == 2

\* array_layers ranges over 0..MaxLayers (and two values beyond 16 bits)
MaxLayers == 13

-----------------------------------------------------------------------------
(* Outcomes of a call *)

Ok(v) == [kind |-> "ok", val |-> v]

\* unimplemented!(): the not-yet-supported failure
Unimplemented(msg) == [kind |-> "unimplemented", msg |-> msg]

\* panic!, assert!, debug_assert!, overflow check: the invalid-input failure
Panic(msg) == [kind |-> "panic", msg |-> msg]

None == [is_some |-> FALSE]

Some(v) == [is_some |-> TRUE, value |-> v]

Builds == {"debug", "release"}

-----------------------------------------------------------------------------
(* 32-bit masks *)

BitPositions == 0..31

Bit(i) == {i}

\* a & b
BitAnd(a, b) == a \cap b

RECURSIVE MasksUpTo(_)
MasksUpTo(n) ==
    IF n = 0 THEN {{}}
    ELSE LET p == MasksUpTo(n - 1)
         IN  p \cup {m \cup {i} : m \in p, i \in BitPositions}

\* the masks a caller passes to the flag mappers
Masks == MasksUpTo(MaxBitsSet)

\* a hal bitflags value: the names of the flags it holds
FlagSet(names) == [hal_flags |-> names]

\* `flags |= X` under the guard `mask & bit != 0`
OrIf(mask, bit, name) == IF BitAnd(mask, bit) # {} THEN {name} ELSE {}

-----------------------------------------------------------------------------
(* Pixel formats *)

VK_FORMAT_UNDEFINED == 0

\* hal::format::NUM_FORMATS: the hal formats are numbered 1..NUM_FORMATS-1
NUM_FORMATS == 185

\* VkFormat variants past the core range: VK_FORMAT_RANGE_SIZE, VK_FORMAT_MAX_ENUM
VK_FORMAT_RANGE_SIZE == 185

VK_FORMAT_MAX_ENUM == 2147483647

VkFormats == (0..(NUM_FORMATS - 1)) \cup {VK_FORMAT_RANGE_SIZE, VK_FORMAT_MAX_ENUM}

\* a hal::format::Format is the enum value with that discriminant
HalFormat(n) == [Format |-> n]

HalFormats == {HalFormat(n) : n \in 1..(NUM_FORMATS - 1)}

\* mem::transmute::<VkFormat, format::Format>: the bits are kept
transmute_to_hal(format) == HalFormat(format)

\* mem::transmute::<format::Format, VkFormat>: the bits are kept
transmute_to_vk(format) == format.Format

\* a variant for a hal numbering that started at 0
format_from_hal_shifted(format) == transmute_to_vk(format) - 1

format_from_hal(format) == transmute_to_vk(format)

\* a variant without the test for the sentinel
map_format_lax(format) ==
    IF format < NUM_FORMATS
    THEN Ok(Some(transmute_to_hal(format)))
    ELSE Unimplemented("Unknown format")

map_format(format) ==
    IF format = VK_FORMAT_UNDEFINED
    THEN Ok(None)
    ELSE IF format < NUM_FORMATS
         THEN Ok(Some(transmute_to_hal(format)))
         ELSE Unimplemented("Unknown format")

-----------------------------------------------------------------------------
(* Image usage: VkImageUsageFlagBits *)

VK_IMAGE_USAGE_TRANSFER_SRC_BIT == Bit(0)
VK_IMAGE_USAGE_TRANSFER_DST_BIT == Bit(1)
VK_IMAGE_USAGE_SAMPLED_BIT == Bit(2)
VK_IMAGE_USAGE_STORAGE_BIT == Bit(3)
VK_IMAGE_USAGE_COLOR_ATTACHMENT_BIT == Bit(4)
VK_IMAGE_USAGE_DEPTH_STENCIL_ATTACHMENT_BIT == Bit(5)
VK_IMAGE_USAGE_TRANSIENT_ATTACHMENT_BIT == Bit(6)
VK_IMAGE_USAGE_INPUT_ATTACHMENT_BIT == Bit(7)

map_image_usage(usage) ==
    LET flags ==
            OrIf(usage, VK_IMAGE_USAGE_TRANSFER_SRC_BIT, "TRANSFER_SRC")
            \cup OrIf(usage, VK_IMAGE_USAGE_TRANSFER_DST_BIT, "TRANSFER_DST")
            \cup OrIf(usage, VK_IMAGE_USAGE_SAMPLED_BIT, "SAMPLED")
            \cup OrIf(usage, VK_IMAGE_USAGE_STORAGE_BIT, "STORAGE")
            \cup OrIf(usage, VK_IMAGE_USAGE_COLOR_ATTACHMENT_BIT, "COLOR_ATTACHMENT")
            \cup OrIf(usage, VK_IMAGE_USAGE_DEPTH_STENCIL_ATTACHMENT_BIT,
                      "DEPTH_STENCIL_ATTACHMENT")
    IN  IF BitAnd(usage, VK_IMAGE_USAGE_TRANSIENT_ATTACHMENT_BIT) # {}
        THEN Unimplemented("transient attachment")
        ELSE IF BitAnd(usage, VK_IMAGE_USAGE_INPUT_ATTACHMENT_BIT) # {}
             THEN Unimplemented("input attachment")
             ELSE Ok(FlagSet(flags))

-----------------------------------------------------------------------------
(* Buffer usage: VkBufferUsageFlagBits *)

VK_BUFFER_USAGE_TRANSFER_SRC_BIT == Bit(0)
VK_BUFFER_USAGE_TRANSFER_DST_BIT == Bit(1)
VK_BUFFER_USAGE_UNIFORM_TEXEL_BUFFER_BIT == Bit(2)
VK_BUFFER_USAGE_STORAGE_TEXEL_BUFFER_BIT == Bit(3)
VK_BUFFER_USAGE_UNIFORM_BUFFER_BIT == Bit(4)
VK_BUFFER_USAGE_STORAGE_BUFFER_BIT == Bit(5)
VK_BUFFER_USAGE_INDEX_BUFFER_BIT == Bit(6)
VK_BUFFER_USAGE_VERTEX_BUFFER_BIT == Bit(7)
VK_BUFFER_USAGE_INDIRECT_BUFFER_BIT == Bit(8)

map_buffer_usage(usage) ==
    Ok(FlagSet(
       OrIf(usage, VK_BUFFER_USAGE_TRANSFER_SRC_BIT, "TRANSFER_SRC")
       \cup OrIf(usage, VK_BUFFER_USAGE_TRANSFER_DST_BIT, "TRANSFER_DST")
       \cup OrIf(usage, VK_BUFFER_USAGE_UNIFORM_TEXEL_BUFFER_BIT, "UNIFORM_TEXEL")
       \cup OrIf(usage, VK_BUFFER_USAGE_STORAGE_TEXEL_BUFFER_BIT, "STORAGE_TEXEL")
       \cup OrIf(usage, VK_BUFFER_USAGE_UNIFORM_BUFFER_BIT, "UNIFORM")
       \cup OrIf(usage, VK_BUFFER_USAGE_STORAGE_BUFFER_BIT, "STORAGE")
       \cup OrIf(usage, VK_BUFFER_USAGE_INDEX_BUFFER_BIT, "INDEX")
       \cup OrIf(usage, VK_BUFFER_USAGE_VERTEX_BUFFER_BIT, "VERTEX")
       \cup OrIf(usage, VK_BUFFER_USAGE_INDIRECT_BUFFER_BIT, "INDIRECT")))

-----------------------------------------------------------------------------
(* Shader stages: VkShaderStageFlagBits *)

VK_SHADER_STAGE_VERTEX_BIT == Bit(0)
VK_SHADER_STAGE_TESSELLATION_CONTROL_BIT == Bit(1)
VK_SHADER_STAGE_TESSELLATION_EVALUATION_BIT == Bit(2)
VK_SHADER_STAGE_GEOMETRY_BIT == Bit(3)
VK_SHADER_STAGE_FRAGMENT_BIT == Bit(4)
VK_SHADER_STAGE_COMPUTE_BIT == Bit(5)
\* 0x0000001F
VK_SHADER_STAGE_ALL_GRAPHICS == 0..4
\* 0x7FFFFFFF
VK_SHADER_STAGE_ALL == 0..30

map_stage_flags(stages) ==
    Ok(FlagSet(
       OrIf(stages, VK_SHADER_STAGE_VERTEX_BIT, "VERTEX")
       \cup OrIf(stages, VK_SHADER_STAGE_TESSELLATION_CONTROL_BIT, "HULL")
       \cup OrIf(stages, VK_SHADER_STAGE_TESSELLATION_EVALUATION_BIT, "DOMAIN")
       \cup OrIf(stages, VK_SHADER_STAGE_GEOMETRY_BIT, "GEOMETRY")
       \cup OrIf(stages, VK_SHADER_STAGE_FRAGMENT_BIT, "FRAGMENT")
       \cup OrIf(stages, VK_SHADER_STAGE_COMPUTE_BIT, "COMPUTE")
       \cup OrIf(stages, VK_SHADER_STAGE_ALL_GRAPHICS, "GRAPHICS")
       \cup OrIf(stages, VK_SHADER_STAGE_ALL, "ALL")))

-----------------------------------------------------------------------------
(* Access: VkAccessFlagBits *)

VK_ACCESS_INPUT_ATTACHMENT_READ_BIT == Bit(4)
VK_ACCESS_SHADER_READ_BIT == Bit(5)
VK_ACCESS_SHADER_WRITE_BIT == Bit(6)
VK_ACCESS_COLOR_ATTACHMENT_READ_BIT == Bit(7)
VK_ACCESS_COLOR_ATTACHMENT_WRITE_BIT == Bit(8)
VK_ACCESS_DEPTH_STENCIL_ATTACHMENT_READ_BIT == Bit(9)
VK_ACCESS_DEPTH_STENCIL_ATTACHMENT_WRITE_BIT == Bit(10)
VK_ACCESS_TRANSFER_READ_BIT == Bit(11)
VK_ACCESS_TRANSFER_WRITE_BIT == Bit(12)
VK_ACCESS_HOST_READ_BIT == Bit(13)
VK_ACCESS_HOST_WRITE_BIT == Bit(14)
VK_ACCESS_MEMORY_READ_BIT == Bit(15)
VK_ACCESS_MEMORY_WRITE_BIT == Bit(16)

map_image_acces(access) ==
    Ok(FlagSet(
       OrIf(access, VK_ACCESS_INPUT_ATTACHMENT_READ_BIT, "INPUT_ATTACHMENT_READ")
       \cup OrIf(access, VK_ACCESS_SHADER_READ_BIT, "SHADER_READ")
       \cup OrIf(access, VK_ACCESS_SHADER_WRITE_BIT, "SHADER_WRITE")
       \cup OrIf(access, VK_ACCESS_COLOR_ATTACHMENT_READ_BIT, "COLOR_ATTACHMENT_READ")
       \cup OrIf(access, VK_ACCESS_COLOR_ATTACHMENT_WRITE_BIT, "COLOR_ATTACHMENT_WRITE")
       \cup OrIf(access, VK_ACCESS_DEPTH_STENCIL_ATTACHMENT_READ_BIT,
                 "DEPTH_STENCIL_ATTACHMENT_READ")
       \cup OrIf(access, VK_ACCESS_DEPTH_STENCIL_ATTACHMENT_WRITE_BIT,
                 "DEPTH_STENCIL_ATTACHMENT_WRITE")
       \cup OrIf(access, VK_ACCESS_TRANSFER_READ_BIT, "TRANSFER_READ")
       \cup OrIf(access, VK_ACCESS_TRANSFER_WRITE_BIT, "TRANSFER_WRITE")
       \cup OrIf(access, VK_ACCESS_HOST_READ_BIT, "HOST_READ")
       \cup OrIf(access, VK_ACCESS_HOST_WRITE_BIT, "HOST_WRITE")
       \cup OrIf(access, VK_ACCESS_MEMORY_READ_BIT, "MEMORY_READ")
       \cup OrIf(access, VK_ACCESS_MEMORY_WRITE_BIT, "MEMORY_WRITE")))

-----------------------------------------------------------------------------
(* Image aspects: VkImageAspectFlagBits *)

VK_IMAGE_ASPECT_COLOR_BIT == Bit(0)
VK_IMAGE_ASPECT_DEPTH_BIT == Bit(1)
VK_IMAGE_ASPECT_STENCIL_BIT == Bit(2)
VK_IMAGE_ASPECT_METADATA_BIT == Bit(3)

map_aspect(aspects) ==
    LET flags ==
            OrIf(aspects, VK_IMAGE_ASPECT_COLOR_BIT, "COLOR")
            \cup OrIf(aspects, VK_IMAGE_ASPECT_DEPTH_BIT, "DEPTH")
            \cup OrIf(aspects, VK_IMAGE_ASPECT_STENCIL_BIT, "DEPTH")
    IN  IF BitAnd(aspects, VK_IMAGE_ASPECT_METADATA_BIT) # {}
        THEN Unimplemented("metadata aspect")
        ELSE Ok(FlagSet(flags))

-----------------------------------------------------------------------------
(* Color components *)

\* `mask as u8`: the low eight bits
as_u8_mask(mask) == mask \cap (0..7)

\* mem::transmute::<u8, pso::ColorMask>: the bits are kept
map_color_components(mask) == Ok([bits |-> as_u8_mask(mask)])

-----------------------------------------------------------------------------
(* Pipeline stages: VkPipelineStageFlagBits *)

\* 0x00004000
VK_PIPELINE_STAGE_HOST_BIT == Bit(14)

\* `mask as u32` read as a number (masks below 2^31)
RECURSIVE ToNat(_)
ToNat(mask) ==
    IF mask = {} THEN 0
    ELSE LET i == CHOOSE j \in mask : TRUE
         IN  2^i + ToNat(mask \ {i})

\* u32 `x << n`: a shift by 32 or more panics where overflow checks are on,
\* and shifts by n mod 32 where they are off
shl_overflows(b, n) == b = "debug" /\ n >= 32

shl(x, n) == {i + (n % 32) : i \in x} \cap BitPositions

\* mem::transmute::<u32, pso::PipelineStage>: the bits are kept
transmute_to_PipelineStage(stages) == [bits |-> stages]

map_pipeline_stage_flags(b, stages) ==
    LET max_flag == ToNat(VK_PIPELINE_STAGE_HOST_BIT)
        \* `1 << (max_flag + 1) - 1` parses as 1 << ((max_flag + 1) - 1)
        amount == (max_flag + 1) - 1
    IN  IF shl_overflows(b, amount)
        THEN Panic("attempt to shift left with overflow")
        ELSE IF BitAnd(stages, shl(Bit(0), amount)) = {}
             THEN Ok(transmute_to_PipelineStage(stages))
             ELSE Unimplemented("Unsupported pipelinee stage flags")

-----------------------------------------------------------------------------
(* 32-bit scalars that are added: two 16-bit limbs *)

U32(hi, lo) == [hi |-> hi, lo |-> lo]

\* the mathematical sum a + c as <<carry, hi, lo>>
Sum(a, c) ==
    LET lo == a.lo + c.lo
        hi == a.hi + c.hi + (lo \div 2^16)
    IN  <<hi \div 2^16, hi % 2^16, lo % 2^16>>

\* u32 `a + c`: panics on overflow where overflow checks are on, wraps where
\* they are off
add_overflows(b, a, c) == b = "debug" /\ Sum(a, c)[1] # 0

add(a, c) == U32(Sum(a, c)[2], Sum(a, c)[3])

\* `as _` into hal::image::Level (u8)
as_Level(x) == x.lo % 2^8

\* `as _` into hal::image::Layer (u16)
as_Layer(x) == x.lo

Range(start, end) == [start |-> start, end |-> end]

map_subresource_range(b, subresource) ==
    LET aspects == map_aspect(subresource.aspectMask)
    IN  IF aspects.kind # "ok"
        THEN aspects
        ELSE IF add_overflows(b, subresource.baseMipLevel, subresource.levelCount)
        THEN Panic("attempt to add with overflow")
        ELSE IF add_overflows(b, subresource.baseArrayLayer, subresource.layerCount)
        THEN Panic("attempt to add with overflow")
        ELSE Ok([aspects |-> aspects.val.hal_flags,
                 levels |-> Range(as_Level(subresource.baseMipLevel),
                                  as_Level(add(subresource.baseMipLevel,
                                               subresource.levelCount))),
                 layers |-> Range(as_Layer(subresource.baseArrayLayer),
                                  as_Layer(add(subresource.baseArrayLayer,
                                               subresource.layerCount)))])

\* 0, 1, 2, 0x100, 0x10000, 0xFFFFFFFF (VK_REMAINING_MIP_LEVELS / _ARRAY_LAYERS)
U32Samples ==
    {U32(0, 0), U32(0, 1), U32(0, 2), U32(0, 256), U32(1, 0), U32(65535, 65535)}

AspectMasks == {m \in Masks : m \subseteq 0..4}

Subresources ==
    [aspectMask : AspectMasks, baseMipLevel : U32Samples, levelCount : U32Samples,
     baseArrayLayer : U32Samples, layerCount : U32Samples]

-----------------------------------------------------------------------------
(* Image kind *)

\* 0x00000010
VK_IMAGE_CREATE_CUBE_COMPATIBLE_BIT == Bit(4)

VkImageTypes ==
    {"VK_IMAGE_TYPE_1D", "VK_IMAGE_TYPE_2D", "VK_IMAGE_TYPE_3D",
     "VK_IMAGE_TYPE_RANGE_SIZE", "VK_IMAGE_TYPE_MAX_ENUM"}

VK_SAMPLE_COUNT_1_BIT == 1

VK_SAMPLE_COUNT_FLAG_BITS_MAX_ENUM == 2147483647

VkSampleCounts == {VK_SAMPLE_COUNT_1_BIT, 4, 64, VK_SAMPLE_COUNT_FLAG_BITS_MAX_ENUM}

\* `as _` into hal::image::Size (u16)
as_Size(x) == x % 2^16

\* `as _` into hal::image::Layer (u16)
as_Layer_count(x) == x % 2^16

\* `as _` into hal::image::NumSamples (u8)
as_NumSamples(x) == x % 2^8

Single == [mode |-> "Single"]

Multi(n) == [mode |-> "Multi", samples |-> n]

map_aa_mode(samples) ==
    IF samples = VK_SAMPLE_COUNT_1_BIT THEN Single ELSE Multi(as_NumSamples(samples))

D1(w) == [variant |-> "D1", width |-> w]

D1Array(w, l) == [variant |-> "D1Array", width |-> w, num_layers |-> l]

D2(w, h, aa) == [variant |-> "D2", width |-> w, height |-> h, aa |-> aa]

D2Array(w, h, l, aa) ==
    [variant |-> "D2Array", width |-> w, height |-> h, num_layers |-> l, aa |-> aa]

D3(w, h, d) == [variant |-> "D3", width |-> w, height |-> h, depth |-> d]

Cube(w) == [variant |-> "Cube", width |-> w]

CubeArray(w, n) == [variant |-> "CubeArray", width |-> w, cubes |-> n]

\* a variant of the match whose cube-array arm comes before the cube arm
image_kind_match_cube_array_first(ty, is_cube, extent, array_layers, samples) ==
    IF ty = "VK_IMAGE_TYPE_1D"
    THEN Ok(D1(as_Size(extent.width)))
    ELSE IF ty = "VK_IMAGE_TYPE_2D" /\ array_layers = 1
    THEN Ok(D2(as_Size(extent.width), as_Size(extent.height), map_aa_mode(samples)))
    ELSE IF ty = "VK_IMAGE_TYPE_2D" /\ is_cube
    THEN Ok(CubeArray(as_Size(extent.width), as_Layer_count(array_layers \div 6)))
    ELSE IF ty = "VK_IMAGE_TYPE_2D" /\ is_cube /\ array_layers = 6
    THEN Ok(Cube(as_Size(extent.width)))
    ELSE IF ty = "VK_IMAGE_TYPE_2D"
    THEN Ok(D2Array(as_Size(extent.width), as_Size(extent.height),
                    as_Layer_count(array_layers), map_aa_mode(samples)))
    ELSE IF ty = "VK_IMAGE_TYPE_3D"
    THEN Ok(D3(as_Size(extent.width), as_Size(extent.height), as_Size(extent.depth)))
    ELSE Unimplemented("image type")

\* a variant of the match whose first 1D arm is taken for a single layer only
image_kind_match_d1_single_layer(ty, is_cube, extent, array_layers, samples) ==
    IF ty = "VK_IMAGE_TYPE_1D" /\ array_layers = 1
    THEN Ok(D1(as_Size(extent.width)))
    ELSE IF ty = "VK_IMAGE_TYPE_1D"
    THEN Ok(D1Array(as_Size(extent.width), as_Layer_count(array_layers)))
    ELSE IF ty = "VK_IMAGE_TYPE_2D" /\ array_layers = 1
    THEN Ok(D2(as_Size(extent.width), as_Size(extent.height), map_aa_mode(samples)))
    ELSE IF ty = "VK_IMAGE_TYPE_2D" /\ is_cube /\ array_layers = 6
    THEN Ok(Cube(as_Size(extent.width)))
    ELSE IF ty = "VK_IMAGE_TYPE_2D" /\ is_cube
    THEN Ok(CubeArray(as_Size(extent.width), as_Layer_count(array_layers \div 6)))
    ELSE IF ty = "VK_IMAGE_TYPE_2D"
    THEN Ok(D2Array(as_Size(extent.width), as_Size(extent.height),
                    as_Layer_count(array_layers), map_aa_mode(samples)))
    ELSE IF ty = "VK_IMAGE_TYPE_3D"
    THEN Ok(D3(as_Size(extent.width), as_Size(extent.height), as_Size(extent.depth)))
    ELSE Unimplemented("image type")

\* `match ty { ... }`: the first arm whose pattern and guard hold is taken
image_kind_match(ty, is_cube, extent, array_layers, samples) ==
    IF ty = "VK_IMAGE_TYPE_1D"
    THEN Ok(D1(as_Size(extent.width)))
    ELSE IF ty = "VK_IMAGE_TYPE_1D"
    THEN Ok(D1Array(as_Size(extent.width), as_Layer_count(array_layers)))
    ELSE IF ty = "VK_IMAGE_TYPE_2D" /\ array_layers = 1
    THEN Ok(D2(as_Size(extent.width), as_Size(extent.height), map_aa_mode(samples)))
    ELSE IF ty = "VK_IMAGE_TYPE_2D" /\ is_cube /\ array_layers = 6
    THEN Ok(Cube(as_Size(extent.width)))
    ELSE IF ty = "VK_IMAGE_TYPE_2D" /\ is_cube
    THEN Ok(CubeArray(as_Size(extent.width), as_Layer_count(array_layers \div 6)))
    ELSE IF ty = "VK_IMAGE_TYPE_2D"
    THEN Ok(D2Array(as_Size(extent.width), as_Size(extent.height),
                    as_Layer_count(array_layers), map_aa_mode(samples)))
    ELSE IF ty = "VK_IMAGE_TYPE_3D"
    THEN Ok(D3(as_Size(extent.width), as_Size(extent.height), as_Size(extent.depth)))
    ELSE Unimplemented("image type")

\* a variant that checks the cube layer count in the 2D case only
map_image_kind_assert_2d_only(b, ty, flags, extent, array_layers, samples) ==
    LET is_cube == BitAnd(flags, VK_IMAGE_CREATE_CUBE_COMPATIBLE_BIT) # {}
    IN  IF b = "debug" /\ array_layers = 0
        THEN Panic("debug_assert_ne!(array_layers, 0)")
        ELSE IF ty = "VK_IMAGE_TYPE_2D" /\ ~(~is_cube \/ array_layers % 6 = 0)
        THEN Panic("assert!(!is_cube || array_layers % 6 == 0)")
        ELSE image_kind_match(ty, is_cube, extent, array_layers, samples)

map_image_kind(b, ty, flags, extent, array_layers, samples) ==
    LET is_cube == BitAnd(flags, VK_IMAGE_CREATE_CUBE_COMPATIBLE_BIT) # {}
    IN  IF b = "debug" /\ array_layers = 0
        THEN Panic("debug_assert_ne!(array_layers, 0)")
        ELSE IF ~(~is_cube \/ array_layers % 6 = 0)
        THEN Panic("assert!(!is_cube || array_layers % 6 == 0)")
        ELSE image_kind_match(ty, is_cube, extent, array_layers, samples)

\* VkImageCreateFlags of a call: the cube bit and its neighbour (MUTABLE_FORMAT)
ImageCreateFlags == {m \in Masks : m \subseteq 3..4}

\* 65600 = 2^16 + 64 and 65537 = 2^16 + 1 do not fit hal's 16-bit Size
VkExtents == [width : {1, 64, 65600}, height : {1, 32, 65537}, depth : {1, 16}]

\* 65537 = 2^16 + 1; 65538 = 6 * 10923
ArrayLayers == (0..MaxLayers) \cup {65537, 65538}

ImageKindInputs ==
    [ty : VkImageTypes, flags : ImageCreateFlags, extent : VkExtents,
     array_layers : ArrayLayers, samples : VkSampleCounts]

-----------------------------------------------------------------------------
(* Enumerations *)

VkPrimitiveTopologies ==
    {"VK_PRIMITIVE_TOPOLOGY_POINT_LIST", "VK_PRIMITIVE_TOPOLOGY_LINE_LIST",
     "VK_PRIMITIVE_TOPOLOGY_LINE_STRIP", "VK_PRIMITIVE_TOPOLOGY_TRIANGLE_LIST",
     "VK_PRIMITIVE_TOPOLOGY_TRIANGLE_STRIP", "VK_PRIMITIVE_TOPOLOGY_TRIANGLE_FAN",
     "VK_PRIMITIVE_TOPOLOGY_LINE_LIST_WITH_ADJACENCY",
     "VK_PRIMITIVE_TOPOLOGY_LINE_STRIP_WITH_ADJACENCY",
     "VK_PRIMITIVE_TOPOLOGY_TRIANGLE_LIST_WITH_ADJACENCY",
     "VK_PRIMITIVE_TOPOLOGY_TRIANGLE_STRIP_WITH_ADJACENCY",
     "VK_PRIMITIVE_TOPOLOGY_PATCH_LIST",
     "VK_PRIMITIVE_TOPOLOGY_RANGE_SIZE", "VK_PRIMITIVE_TOPOLOGY_MAX_ENUM"}

PatchSizes == {1, 3, 32}

map_primitive_topology(topology, patch_size) ==
    CASE topology = "VK_PRIMITIVE_TOPOLOGY_POINT_LIST" -> Ok([primitive |-> "PointList"])
      [] topology = "VK_PRIMITIVE_TOPOLOGY_LINE_LIST" -> Ok([primitive |-> "LineList"])
      [] topology = "VK_PRIMITIVE_TOPOLOGY_LINE_STRIP" -> Ok([primitive |-> "LineStrip"])
      [] topology = "VK_PRIMITIVE_TOPOLOGY_TRIANGLE_LIST" ->
            Ok([primitive |-> "TriangleList"])
      [] topology = "VK_PRIMITIVE_TOPOLOGY_TRIANGLE_STRIP" ->
            Ok([primitive |-> "TriangleStrip"])
      [] topology = "VK_PRIMITIVE_TOPOLOGY_TRIANGLE_FAN" ->
            Panic("VK_PRIMITIVE_TOPOLOGY_TRIANGLE_FAN not supported in portability")
      [] topology = "VK_PRIMITIVE_TOPOLOGY_LINE_LIST_WITH_ADJACENCY" ->
            Ok([primitive |-> "LineListAdjacency"])
      [] topology = "VK_PRIMITIVE_TOPOLOGY_LINE_STRIP_WITH_ADJACENCY" ->
            Ok([primitive |-> "LineStripAdjacency"])
      [] topology = "VK_PRIMITIVE_TOPOLOGY_TRIANGLE_LIST_WITH_ADJACENCY" ->
            Ok([primitive |-> "TriangleListAdjacency"])
      [] topology = "VK_PRIMITIVE_TOPOLOGY_TRIANGLE_STRIP_WITH_ADJACENCY" ->
            Ok([primitive |-> "TriangleStripAdjacency"])
      [] topology = "VK_PRIMITIVE_TOPOLOGY_PATCH_LIST" ->
            Ok([primitive |-> "PatchList", patch_size |-> patch_size])
      [] OTHER -> Panic("Unexpected primitive topology")

VK_CULL_MODE_NONE == {}
VK_CULL_MODE_FRONT_BIT == Bit(0)
VK_CULL_MODE_BACK_BIT == Bit(1)
\* 0x00000003
VK_CULL_MODE_FRONT_AND_BACK == 0..1

map_cull_face(cull) ==
    IF cull = VK_CULL_MODE_NONE THEN Ok(None)
    ELSE IF cull = VK_CULL_MODE_FRONT_BIT THEN Ok(Some([CullFace |-> "Front"]))
    ELSE IF cull = VK_CULL_MODE_BACK_BIT THEN Ok(Some([CullFace |-> "Back"]))
    ELSE IF cull = VK_CULL_MODE_FRONT_AND_BACK THEN Unimplemented("front and back")
    ELSE Panic("Unexpected cull mode")

VkDescriptorTypes ==
    {"VK_DESCRIPTOR_TYPE_SAMPLER", "VK_DESCRIPTOR_TYPE_COMBINED_IMAGE_SAMPLER",
     "VK_DESCRIPTOR_TYPE_SAMPLED_IMAGE", "VK_DESCRIPTOR_TYPE_STORAGE_IMAGE",
     "VK_DESCRIPTOR_TYPE_UNIFORM_TEXEL_BUFFER", "VK_DESCRIPTOR_TYPE_STORAGE_TEXEL_BUFFER",
     "VK_DESCRIPTOR_TYPE_UNIFORM_BUFFER", "VK_DESCRIPTOR_TYPE_STORAGE_BUFFER",
     "VK_DESCRIPTOR_TYPE_UNIFORM_BUFFER_DYNAMIC",
     "VK_DESCRIPTOR_TYPE_STORAGE_BUFFER_DYNAMIC",
     "VK_DESCRIPTOR_TYPE_INPUT_ATTACHMENT",
     "VK_DESCRIPTOR_TYPE_RANGE_SIZE", "VK_DESCRIPTOR_TYPE_MAX_ENUM"}

map_descriptor_type(ty) ==
    CASE ty = "VK_DESCRIPTOR_TYPE_SAMPLER" -> Ok("Sampler")
      [] ty = "VK_DESCRIPTOR_TYPE_SAMPLED_IMAGE" -> Ok([DescriptorType |-> "SampledImage"])
      [] ty = "VK_DESCRIPTOR_TYPE_STORAGE_IMAGE" -> Ok([DescriptorType |-> "StorageImage"])
      [] ty = "VK_DESCRIPTOR_TYPE_UNIFORM_TEXEL_BUFFER" -> Ok([DescriptorType |-> "UniformTexelBuffer"])
      [] ty = "VK_DESCRIPTOR_TYPE_STORAGE_TEXEL_BUFFER" -> Ok([DescriptorType |-> "StorageTexelBuffer"])
      [] ty = "VK_DESCRIPTOR_TYPE_UNIFORM_BUFFER" -> Ok([DescriptorType |-> "UniformBuffer"])
      [] ty = "VK_DESCRIPTOR_TYPE_STORAGE_BUFFER" -> Ok([DescriptorType |-> "StorageBuffer"])
      [] ty = "VK_DESCRIPTOR_TYPE_INPUT_ATTACHMENT" -> Ok([DescriptorType |-> "InputAttachment"])
      [] ty \in {"VK_DESCRIPTOR_TYPE_COMBINED_IMAGE_SAMPLER",
                 "VK_DESCRIPTOR_TYPE_UNIFORM_BUFFER_DYNAMIC",
                 "VK_DESCRIPTOR_TYPE_STORAGE_BUFFER_DYNAMIC"} ->
            Unimplemented("descriptor type")
      [] OTHER -> Panic("Unexpected descriptor type")

-----------------------------------------------------------------------------
(* Device-creation errors *)

DeviceCreationErrors ==
    {"OutOfHostMemory", "OutOfDeviceMemory", "InitializationFailed",
     "MissingExtension", "MissingFeature", "TooManyObjects", "DeviceLost"}

\* the value of a VkResult variant
VkResult_code(result) ==
    CASE result = "VK_ERROR_OUT_OF_HOST_MEMORY" -> -1
      [] result = "VK_ERROR_OUT_OF_DEVICE_MEMORY" -> -2
      [] result = "VK_ERROR_INITIALIZATION_FAILED" -> -3
      [] result = "VK_ERROR_DEVICE_LOST" -> -4
      [] result = "VK_ERROR_EXTENSION_NOT_PRESENT" -> -7
      [] result = "VK_ERROR_FEATURE_NOT_PRESENT" -> -8
      [] result = "VK_ERROR_TOO_MANY_OBJECTS" -> -10

\* a variant whose MissingFeature arm repeats the code of MissingExtension
map_err_device_creation_merged(err) ==
    CASE err = "OutOfHostMemory" -> "VK_ERROR_OUT_OF_HOST_MEMORY"
      [] err = "OutOfDeviceMemory" -> "VK_ERROR_OUT_OF_DEVICE_MEMORY"
      [] err = "InitializationFailed" -> "VK_ERROR_INITIALIZATION_FAILED"
      [] err = "MissingExtension" -> "VK_ERROR_EXTENSION_NOT_PRESENT"
      [] err = "MissingFeature" -> "VK_ERROR_EXTENSION_NOT_PRESENT"
      [] err = "TooManyObjects" -> "VK_ERROR_TOO_MANY_OBJECTS"
      [] err = "DeviceLost" -> "VK_ERROR_DEVICE_LOST"

map_err_device_creation(err) ==
    CASE err = "OutOfHostMemory" -> "VK_ERROR_OUT_OF_HOST_MEMORY"
      [] err = "OutOfDeviceMemory" -> "VK_ERROR_OUT_OF_DEVICE_MEMORY"
      [] err = "InitializationFailed" -> "VK_ERROR_INITIALIZATION_FAILED"
      [] err = "MissingExtension" -> "VK_ERROR_EXTENSION_NOT_PRESENT"
      [] err = "MissingFeature" -> "VK_ERROR_FEATURE_NOT_PRESENT"
      [] err = "TooManyObjects" -> "VK_ERROR_TOO_MANY_OBJECTS"
      [] err = "DeviceLost" -> "VK_ERROR_DEVICE_LOST"

-----------------------------------------------------------------------------
(* The client *)

\* no call is under way
NoCall == [idle |-> TRUE]

Idle == fn = "none"

Init ==
    /\ build \in Builds
    /\ fn = "none"
    /\ arg = NoCall
    /\ ret = NoCall

\* the call `name(input)` ends with `result`
Call(name, input, result) ==
    /\ fn' = name
    /\ arg' = input
    /\ ret' = result
    /\ UNCHANGED build

Call_map_format ==
    /\ Idle
    /\ \E format \in VkFormats : Call("map_format", [format |-> format], map_format(format))

Call_format_from_hal ==
    /\ Idle
    /\ \E format \in HalFormats :
            Call("format_from_hal", [hal_format |-> format],
                 Ok([VkFormat |-> format_from_hal(format)]))

Call_map_image_usage ==
    /\ Idle
    /\ \E usage \in Masks : Call("map_image_usage", [usage |-> usage], map_image_usage(usage))

Call_map_buffer_usage ==
    /\ Idle
    /\ \E usage \in Masks : Call("map_buffer_usage", [usage |-> usage], map_buffer_usage(usage))

Call_map_stage_flags ==
    /\ Idle
    /\ \E stages \in Masks : Call("map_stage_flags", [stages |-> stages], map_stage_flags(stages))

Call_map_image_acces ==
    /\ Idle
    /\ \E access \in Masks : Call("map_image_acces", [access |-> access], map_image_acces(access))

Call_map_color_components ==
    /\ Idle
    /\ \E mask \in Masks :
            Call("map_color_components", [mask |-> mask], map_color_components(mask))

Call_map_pipeline_stage_flags ==
    /\ Idle
    /\ \E stages \in Masks :
            Call("map_pipeline_stage_flags", [stages |-> stages],
                 map_pipeline_stage_flags(build, stages))

Call_map_subresource_range ==
    /\ Idle
    /\ \E subresource \in Subresources :
            Call("map_subresource_range", [subresource |-> subresource],
                 map_subresource_range(build, subresource))

Call_map_image_kind ==
    /\ Idle
    /\ \E i \in ImageKindInputs :
            Call("map_image_kind", i,
                 map_image_kind(build, i.ty, i.flags, i.extent, i.array_layers, i.samples))

Call_map_primitive_topology ==
    /\ Idle
    /\ \E topology \in VkPrimitiveTopologies, patch_size \in PatchSizes :
            Call("map_primitive_topology",
                 [topology |-> topology, patch_size |-> patch_size],
                 map_primitive_topology(topology, patch_size))

Call_map_cull_face ==
    /\ Idle
    /\ \E cull \in Masks : Call("map_cull_face", [cull |-> cull], map_cull_face(cull))

Call_map_descriptor_type ==
    /\ Idle
    /\ \E ty \in VkDescriptorTypes :
            Call("map_descriptor_type", [ty |-> ty], map_descriptor_type(ty))

Call_map_err_device_creation ==
    /\ Idle
    /\ \E err \in DeviceCreationErrors :
            Call("map_err_device_creation", [err |-> err],
                 Ok([VkResult |-> VkResult_code(map_err_device_creation(err))]))

\* the caller consumes the value (or the unwinding ends) and is ready to call again
Return ==
    /\ ~Idle
    /\ fn' = "none"
    /\ arg' = NoCall
    /\ ret' = NoCall
    /\ UNCHANGED build

Next ==
    \/ Call_map_format
    \/ Call_format_from_hal
    \/ Call_map_image_usage
    \/ Call_map_buffer_usage
    \/ Call_map_stage_flags
    \/ Call_map_image_acces
    \/ Call_map_color_components
    \/ Call_map_pipeline_stage_flags
    \/ Call_map_subresource_range
    \/ Call_map_image_kind
    \/ Call_map_primitive_topology
    \/ Call_map_cull_face
    \/ Call_map_descriptor_type
    \/ Call_map_err_device_creation
    \/ Return

Spec == Init /\ [][Next]_vars

-----------------------------------------------------------------------------
(* Properties *)

CubeFlagged(i) == BitAnd(i.flags, VK_IMAGE_CREATE_CUBE_COMPATIBLE_BIT) # {}

\* the value of a two-limb scalar lies below 2^31 and equals n
IsNat(x, n) == x.hi = n \div 2^16 /\ x.lo = n % 2^16

\* C1: for every pixel-format code c with 0 < c < NUM_FORMATS, map_format(c)
\* returns Some(f), and format_from_hal(f) is c again.
C1_FormatRoundTrip ==
    (fn = "map_format" /\ 0 < arg.format /\ arg.format < NUM_FORMATS) =>
        /\ ret.kind = "ok"
        /\ ret.val.is_some
        /\ format_from_hal(ret.val.value) = arg.format

\* the last core format, VK_FORMAT_ASTC_12x12_SRGB_BLOCK, went there and back
C1_Witness ==
    /\ fn = "map_format"
    /\ arg.format = NUM_FORMATS - 1
    /\ ret.kind = "ok"
    /\ ret.val.is_some
    /\ format_from_hal(ret.val.value) = NUM_FORMATS - 1

\* the (external bit, internal flag) pairs of the four accumulating mappers
ImageUsagePairs ==
    {<<0, "TRANSFER_SRC">>, <<1, "TRANSFER_DST">>, <<2, "SAMPLED">>, <<3, "STORAGE">>,
     <<4, "COLOR_ATTACHMENT">>, <<5, "DEPTH_STENCIL_ATTACHMENT">>}

BufferUsagePairs ==
    {<<0, "TRANSFER_SRC">>, <<1, "TRANSFER_DST">>, <<2, "UNIFORM_TEXEL">>,
     <<3, "STORAGE_TEXEL">>, <<4, "UNIFORM">>, <<5, "STORAGE">>, <<6, "INDEX">>,
     <<7, "VERTEX">>, <<8, "INDIRECT">>}

StagePairs ==
    {<<0, "VERTEX">>, <<1, "HULL">>, <<2, "DOMAIN">>, <<3, "GEOMETRY">>,
     <<4, "FRAGMENT">>, <<5, "COMPUTE">>}

AccessPairs ==
    {<<4, "INPUT_ATTACHMENT_READ">>, <<5, "SHADER_READ">>, <<6, "SHADER_WRITE">>,
     <<7, "COLOR_ATTACHMENT_READ">>, <<8, "COLOR_ATTACHMENT_WRITE">>,
     <<9, "DEPTH_STENCIL_ATTACHMENT_READ">>, <<10, "DEPTH_STENCIL_ATTACHMENT_WRITE">>,
     <<11, "TRANSFER_READ">>, <<12, "TRANSFER_WRITE">>, <<13, "HOST_READ">>,
     <<14, "HOST_WRITE">>, <<15, "MEMORY_READ">>, <<16, "MEMORY_WRITE">>}

RecognizedBits(pairs) == {p[1] : p \in pairs}

PairedFlags(pairs, mask) == {p[2] : p \in {q \in pairs : q[1] \in mask}}

Accumulates(name, mask, pairs) ==
    (fn = name /\ mask \subseteq RecognizedBits(pairs)) =>
        (ret.kind = "ok" /\ ret.val.hal_flags = PairedFlags(pairs, mask))

\* C2: for each of map_image_usage, map_buffer_usage, map_stage_flags and
\* map_image_acces, and every set S of recognized external bits, the result holds
\* exactly the internal flags paired with the bits of S.
C2_FlagAccumulation ==
    /\ Accumulates("map_image_usage", arg.usage, ImageUsagePairs)
    /\ Accumulates("map_buffer_usage", arg.usage, BufferUsagePairs)
    /\ Accumulates("map_stage_flags", arg.stages, StagePairs)
    /\ Accumulates("map_image_acces", arg.access, AccessPairs)

Rejects(name, mask, recognized) ==
    (fn = name /\ ~(mask \subseteq recognized)) => ret.kind # "ok"

\* C3: a mask with a bit outside the table of its mapper makes the call fail; this
\* for map_image_usage, map_buffer_usage, map_stage_flags, map_image_acces,
\* map_aspect (called by map_subresource_range) and map_color_components.
C3_UnrecognizedBitRejected ==
    /\ Rejects("map_image_usage", arg.usage, RecognizedBits(ImageUsagePairs))
    /\ Rejects("map_buffer_usage", arg.usage, RecognizedBits(BufferUsagePairs))
    /\ Rejects("map_stage_flags", arg.stages, RecognizedBits(StagePairs))
    /\ Rejects("map_image_acces", arg.access, RecognizedBits(AccessPairs))
    /\ Rejects("map_color_components", arg.mask, 0..3)
    /\ (fn = "map_subresource_range" /\ ~(arg.subresource.aspectMask \subseteq 0..2)) =>
            ret.kind # "ok"

\* the two cases of the claim C4, the unknown bits being those from `first` up
SelectsAt(first) ==
    fn = "map_pipeline_stage_flags" =>
        IF arg.stages \cap (first..31) = {}
        THEN ret.kind = "ok" /\ ret.val.bits = arg.stages
        ELSE ret.kind = "unimplemented"

\* C4: map_pipeline_stage_flags returns the mask unchanged when no bit at or above
\* the maximum derived from VK_PIPELINE_STAGE_HOST_BIT is set, and fails as
\* not-yet-supported when one is; the maximum read as the host bit itself
\* (position 14) or as the first bit after it (position 15).
C4_PipelineStageBound == SelectsAt(14) \/ SelectsAt(15)

\* the preconditions of map_image_kind
KindPreconditions(i) ==
    /\ i.array_layers # 0
    /\ CubeFlagged(i) => i.array_layers % 6 = 0

\* the decision order of the claim C5 for the 2D type, the components of the kind
\* being size(width), size(height), layer(count) and aa
DecisionOrder2D(i, size(_), layer(_), aa) ==
    IF i.array_layers = 1
    THEN D2(size(i.extent.width), size(i.extent.height), aa)
    ELSE IF CubeFlagged(i) /\ i.array_layers = 6
    THEN Cube(size(i.extent.width))
    ELSE IF CubeFlagged(i)
    THEN CubeArray(size(i.extent.width), layer(i.array_layers \div 6))
    ELSE D2Array(size(i.extent.width), size(i.extent.height), layer(i.array_layers), aa)

Same(x) == x

Low16(x) == x % 65536

\* C5, as claimed: for the 2D type and inputs that satisfy the preconditions the
\* result is D2(width, height, aa) for one layer, else Cube(width) for the cube flag
\* and six layers, else CubeArray(width, array_layers / 6) for the cube flag, else
\* D2Array(width, height, array_layers, aa); aa is Single for sample count 1 and
\* Multi(samples) otherwise.
C5_DecisionOrderAsClaimed ==
    (fn = "map_image_kind" /\ arg.ty = "VK_IMAGE_TYPE_2D" /\ KindPreconditions(arg)) =>
        /\ ret.kind = "ok"
        /\ ret.val = DecisionOrder2D(arg, Same, Same,
                        IF arg.samples = 1 THEN Single ELSE Multi(arg.samples))

\* C5, amended: the same decision order, the width, the height and the layer and
\* cube counts being reduced modulo 2^16 and the sample count of Multi modulo 2^8.
C5_DecisionOrder ==
    (fn = "map_image_kind" /\ arg.ty = "VK_IMAGE_TYPE_2D" /\ KindPreconditions(arg)) =>
        /\ ret.kind = "ok"
        /\ ret.val = DecisionOrder2D(arg, Low16, Low16,
                        IF arg.samples = 1 THEN Single ELSE Multi(arg.samples % 256))

\* a cube-compatible 2D image of 12 layers and width 64 became CubeArray(64, 2)
C5_Witness ==
    /\ fn = "map_image_kind"
    /\ arg.ty = "VK_IMAGE_TYPE_2D"
    /\ CubeFlagged(arg)
    /\ arg.array_layers = 12
    /\ arg.extent.width = 64
    /\ ret.kind = "ok"
    /\ ret.val = CubeArray(64, 2)

\* C6: a call of map_image_kind with the cube-compatible flag and a layer count
\* that 6 does not divide ends in the invalid-input failure, whatever the type.
C6_InvalidCubeRejected ==
    (fn = "map_image_kind" /\ CubeFlagged(arg) /\ arg.array_layers % 6 # 0) =>
        ret.kind = "panic"

\* a cube-compatible 3D image of 4 layers was rejected
C6_Witness ==
    /\ fn = "map_image_kind"
    /\ arg.ty = "VK_IMAGE_TYPE_3D"
    /\ CubeFlagged(arg)
    /\ arg.array_layers = 4
    /\ ret.kind = "panic"

\* C7: a value that is in its domain but unsupported fails as not-yet-supported
\* (triangle fan, front-and-back culling, combined and dynamic descriptors); a value
\* outside the domain fails as invalid-input (unknown topology, cull mode or
\* descriptor type, a format code >= NUM_FORMATS).
C7_FailureKindsDistinct ==
    /\ (fn = "map_primitive_topology"
        /\ arg.topology = "VK_PRIMITIVE_TOPOLOGY_TRIANGLE_FAN") =>
            ret.kind = "unimplemented"
    /\ (fn = "map_primitive_topology"
        /\ arg.topology \in {"VK_PRIMITIVE_TOPOLOGY_RANGE_SIZE",
                             "VK_PRIMITIVE_TOPOLOGY_MAX_ENUM"}) =>
            ret.kind = "panic"
    /\ (fn = "map_cull_face" /\ arg.cull = 0..1) => ret.kind = "unimplemented"
    /\ (fn = "map_cull_face" /\ ~(arg.cull \subseteq 0..1)) => ret.kind = "panic"
    /\ (fn = "map_descriptor_type"
        /\ arg.ty \in {"VK_DESCRIPTOR_TYPE_COMBINED_IMAGE_SAMPLER",
                    "VK_DESCRIPTOR_TYPE_UNIFORM_BUFFER_DYNAMIC",
                    "VK_DESCRIPTOR_TYPE_STORAGE_BUFFER_DYNAMIC"}) =>
            ret.kind = "unimplemented"
    /\ (fn = "map_descriptor_type"
        /\ arg.ty \in {"VK_DESCRIPTOR_TYPE_RANGE_SIZE", "VK_DESCRIPTOR_TYPE_MAX_ENUM"}) =>
            ret.kind = "panic"
    /\ (fn = "map_format" /\ arg.format >= NUM_FORMATS) => ret.kind = "panic"

\* the range is [base, base + count), the bound being the sum in the integers
HalfOpen(range, base, count) ==
    /\ IsNat(base, range.start)
    /\ Sum(base, count) = <<0, range.end \div 2^16, range.end % 2^16>>

\* C8: for every 32-bit base and count (and an aspect mask that is supported),
\* map_subresource_range returns levels = [baseMipLevel, baseMipLevel + levelCount)
\* and layers = [baseArrayLayer, baseArrayLayer + layerCount), the upper bounds being
\* the true sums.
C8_SubresourceRange ==
    (fn = "map_subresource_range" /\ arg.subresource.aspectMask \subseteq 0..2) =>
        /\ ret.kind = "ok"
        /\ HalfOpen(ret.val.levels, arg.subresource.baseMipLevel,
                    arg.subresource.levelCount)
        /\ HalfOpen(ret.val.layers, arg.subresource.baseArrayLayer,
                    arg.subresource.layerCount)

\* the external result codes that Vulkan defines as errors of device creation
DefinedResultCodes == {-1, -2, -3, -4, -7, -8, -10}

\* C9: map_err_device_creation returns a defined result code for every variant of
\* DeviceCreationError, and no other variant maps to the same code.
C9_DeviceCreationErrorTotal ==
    fn = "map_err_device_creation" =>
        /\ ret.kind = "ok"
        /\ ret.val.VkResult \in DefinedResultCodes
        /\ \A other \in DeviceCreationErrors \ {arg.err} :
                VkResult_code(map_err_device_creation(other)) # ret.val.VkResult

\* MissingFeature became VK_ERROR_FEATURE_NOT_PRESENT (-8)
C9_Witness ==
    /\ fn = "map_err_device_creation"
    /\ arg.err = "MissingFeature"
    /\ ret.kind = "ok"
    /\ ret.val.VkResult = -8

\* C10: map_format(VK_FORMAT_UNDEFINED) returns None without failing, and
\* format_from_hal returns VK_FORMAT_UNDEFINED for no internal format.
C10_UndefinedSentinel ==
    /\ (fn = "map_format" /\ arg.format = VK_FORMAT_UNDEFINED) =>
            (ret.kind = "ok" /\ ~ret.val.is_some)
    /\ fn = "format_from_hal" =>
            (ret.kind = "ok" /\ ret.val.VkFormat # VK_FORMAT_UNDEFINED)

\* VK_FORMAT_UNDEFINED was mapped, to None
C10_Witness ==
    /\ fn = "map_format"
    /\ arg.format = VK_FORMAT_UNDEFINED
    /\ ret.kind = "ok"
    /\ ~ret.val.is_some

\* C11: map_image_kind returns no kind for array_layers = 0 (every such call
\* fails), and whenever it returns Cube or CubeArray the array_layers input was a
\* positive multiple of 6, so that the cube count array_layers / 6 of CubeArray is
\* at least 1.
C11_LayerInvariant ==
    fn = "map_image_kind" =>
        /\ arg.array_layers = 0 => ret.kind # "ok"
        /\ (ret.kind = "ok" /\ ret.val.variant \in {"Cube", "CubeArray"}) =>
                /\ arg.array_layers > 0
                /\ arg.array_layers % 6 = 0
        /\ (ret.kind = "ok" /\ ret.val.variant = "CubeArray") =>
                arg.array_layers \div 6 >= 1

\* C12, as claimed: for every input with the 1D type that satisfies the
\* preconditions map_image_kind returns D1(width) whatever array_layers is, and no
\* call returns D1Array, even when array_layers > 1.
C12_D1ArrayUnreachableAsClaimed ==
    /\ (fn = "map_image_kind" /\ arg.ty = "VK_IMAGE_TYPE_1D" /\ KindPreconditions(arg)) =>
            /\ ret.kind = "ok"
            /\ ret.val = D1(arg.extent.width)
    /\ (fn = "map_image_kind" /\ ret.kind = "ok") => ret.val.variant # "D1Array"

\* C12, amended: the same, the width of D1 being the width reduced modulo 2^16.
C12_D1ArrayUnreachable ==
    /\ (fn = "map_image_kind" /\ arg.ty = "VK_IMAGE_TYPE_1D" /\ KindPreconditions(arg)) =>
            /\ ret.kind = "ok"
            /\ ret.val = D1(Low16(arg.extent.width))
    /\ (fn = "map_image_kind" /\ ret.kind = "ok") => ret.val.variant # "D1Array"

\* a 1D image of 3 layers and width 64 became D1(64)
C12_Witness ==
    /\ fn = "map_image_kind"
    /\ arg.ty = "VK_IMAGE_TYPE_1D"
    /\ ~CubeFlagged(arg)
    /\ arg.array_layers = 3
    /\ arg.extent.width = 64
    /\ ret.kind = "ok"
    /\ ret.val = D1(64)

====
